---- MODULE Spec2Model ----
(***************************************************************************)
(* Call-state reconciliation of the Retell calling agent.                  *)
(*                                                                         *)
(* The store is the `calls` table (app/models.py).  Three request handlers *)
(* write it: initiate_retell_call and create_retell_web_call insert and    *)
(* update rows, retell_webhook updates the row whose retell_call_id equals *)
(* the event's call id.  Every handler opens its own SQLAlchemy session;   *)
(* a session loads a row into an object, the handler assigns attributes,   *)
(* and commit() flushes an UPDATE of the attributes whose value differs    *)
(* from the loaded one.  Handlers of different requests may run in         *)
(* different worker processes, so the steps between two store accesses of  *)
(* one handler interleave with the steps of the others.                    *)
(***************************************************************************)
EXTENDS Integers, Sequences, FiniteSets, TLC

\* ------------------------------------------------------------------ bounds

\* Webhook deliveries accepted in one behaviour.
MaxEvents == 2

\* The webhook handlers that can be in flight at once.
Workers == {1, 2}

\* The call-creation requests of one behaviour: one initiation (POST
\* /api/retell/call) and one web call (POST /api/retell/web-call).
Initiations == {1}
WebCalls == {2}
Requests == Initiations \cup WebCalls

\* ------------------------------------------------------------------ values

\* Python None / SQL NULL in a text column, and a key missing from a dict.
None == "None"
Absent == "Absent"

\* retell_call_id NULL, and "no row" from .first().
NoCall == 0
NoRow == 0

\* Call ids the provider issues are 1, 2, ...; one more id belongs to a call
\* this server never placed.
CallIds == 1..(Cardinality(Requests) + 1)

Truthy(v) == v \notin {None, Absent, ""}

\* dict.get(key): a missing key reads as None.
Get(v) == IF v = Absent THEN None ELSE v

\* dict.get(key, default): the default applies to a missing key only.
GetOr(v, default) == IF v = Absent THEN default ELSE v

\* x or default
Or(v, default) == IF Truthy(v) THEN v ELSE default

\* ------------------------------------------------------------------ records

\* Call(...) without status="initiated": the row gets the column default of
\* models.py.
NewCallDefaultStatus(id, req) ==
    [ id             |-> id,
      lead_id        |-> Or(req.lead, "N/A"),
      lead_name      |-> Or(req.lead, "Unknown"),
      lead_phone     |-> req.to_number,
      retell_call_id |-> NoCall,
      status         |-> "queued",
      transcript     |-> None,
      call_summary   |-> None,
      recording_url  |-> None,
      duration_ms    |-> None,
      created_at     |-> id ]

\* Call(...) as initiate_retell_call constructs it.
NewCall(id, req) ==
    [ id             |-> id,
      lead_id        |-> Or(req.lead, "N/A"),
      lead_name      |-> Or(req.lead, "Unknown"),
      lead_phone     |-> req.to_number,
      retell_call_id |-> NoCall,
      status         |-> "initiated",
      transcript     |-> None,
      call_summary   |-> None,
      recording_url  |-> None,
      duration_ms    |-> None,
      created_at     |-> id ]

\* Call(...) as create_retell_web_call constructs it.
NewWebCall(id, req, call_id) ==
    [ id             |-> id,
      lead_id        |-> None,
      lead_name      |-> Or(req.lead, "Web User"),
      lead_phone     |-> "WEB_CALL",
      retell_call_id |-> call_id,
      status         |-> "ongoing",
      transcript     |-> None,
      call_summary   |-> None,
      recording_url  |-> None,
      duration_ms    |-> None,
      created_at     |-> id ]

Columns ==
    { "id", "lead_id", "lead_name", "lead_phone", "retell_call_id", "status",
      "transcript", "call_summary", "recording_url", "duration_ms", "created_at" }

\* A commit that writes back every column of the loaded object, changed or not.
FlushWholeRow(row, loaded, obj) == obj

\* commit(): the UPDATE sets the columns whose value the handler changed with
\* respect to the loaded row; the other columns keep what the table holds.
Flush(row, loaded, obj) ==
    [c \in Columns |-> IF obj[c] # loaded[c] THEN obj[c] ELSE row[c]]

\* ------------------------------------------------------------------ state

VARIABLES
    env,        \* process environment: which settings are configured
    store,      \* the calls table: row id -> row
    nextId,     \* next row id (uuid4 of models.py: never repeats)
    nextCall,   \* next call id the provider issues
    proc,       \* call-creation request handlers, one per request
    hook,       \* webhook handlers, one per worker
    delivered,  \* webhook deliveries so far
    reply,      \* where the webhook handler that finished last returned or raised
    txBy,       \* history: row id -> event kind that wrote the row's transcript
    applied     \* history: row id -> the events committed on the row, in order

vars == <<env, store, nextId, nextCall, proc, hook, delivered, reply, txBy, applied>>

\* RETELL_API_KEY, RETELL_AGENT_ID, RETELL_FROM_NUMBER: set or empty.  The
\* environments explored: nothing set, the key alone, everything set.
Envs ==
    { [api_key |-> FALSE, agent_id |-> FALSE, from_number |-> FALSE],
      [api_key |-> TRUE,  agent_id |-> FALSE, from_number |-> FALSE],
      [api_key |-> TRUE,  agent_id |-> TRUE,  from_number |-> TRUE] }

\* The fields of an initiation request the handler reads; `lead` stands for
\* lead_id and lead_name, here both left out.
InitiateRequests ==
    [ to_number   : {"+15550100"},
      agent_id    : {None, "agent"},
      from_number : {None, "+15550111"},
      lead        : {None} ]

\* The fields of a web-call request; the lead name is given.
WebCallRequests == [agent_id : {None, "agent"}, lead : {"Ann"}]

\* What the provider answers to a placement: the status key may be missing.
PlacementStatuses == {Absent, "ongoing"}

\* No response body: the handler has not returned the dictionary of lines 116-125.
NoBody == [internal_call_id |-> NoRow, retell_call_id |-> NoCall, status |-> None]

\* A handler that has not run: no row, no request, no answer, no response.
IdleProc ==
    [pc |-> "idle", rid |-> NoRow, agent_id |-> None, from_number |-> None,
     lead |-> None, call_id |-> NoCall, call_status |-> Absent, resp |-> "-",
     placed |-> FALSE, trail |-> <<>>, early |-> FALSE, body |-> NoBody]

NoEvent ==
    [kind |-> "none", call_id |-> NoCall, call_status |-> Absent,
     transcript |-> Absent, duration_ms |-> Absent, call_summary |-> Absent,
     recording_url |-> Absent]

NoLoaded ==
    [c \in Columns |-> IF c \in {"id", "retell_call_id", "created_at"} THEN NoRow ELSE None]

IdleHook == [pc |-> "idle", rid |-> NoRow, ev |-> NoEvent, loaded |-> NoLoaded]

NoReply == [at |-> "-", resp |-> "-"]

Init ==
    /\ env \in Envs
    /\ store = <<>>
    /\ nextId = 1
    /\ nextCall = 1
    /\ proc = [i \in Requests |-> IdleProc]
    /\ hook = [w \in Workers |-> IdleHook]
    /\ delivered = 0
    /\ reply = NoReply
    /\ txBy = <<>>
    /\ applied = <<>>

Rows == DOMAIN store

\* db.add(row) with no commit: the table does not have the row.
InsertUncommitted(st, row) == st

\* db.add(row); db.commit()
Insert(st, row) == [r \in DOMAIN st \cup {row.id} |-> IF r = row.id THEN row ELSE st[r]]

\* db.delete(row); db.commit()
Delete(st, id) == [r \in DOMAIN st \ {id} |-> st[r]]

\* ------------------------------------------------------------------ provider gateway

\* get_retell_service(): RetellService() raises RetellConfigError without an API key.
ServiceAvailable(e) == e.api_key

\* RetellService.initiate_call without the test of lines 75-78: only the
\* agent id has to resolve.
ResolvableAgentOnly(e, agent_id, from_number) == Truthy(agent_id) \/ e.agent_id

\* RetellService.initiate_call: agent id and caller number, each from the
\* request or else from the environment; a RetellConfigError when either is empty.
Resolvable(e, agent_id, from_number) ==
    /\ Truthy(agent_id) \/ e.agent_id
    /\ Truthy(from_number) \/ e.from_number

\* RetellService.create_web_call: the agent id alone is resolved.
WebResolvable(e, agent_id) == Truthy(agent_id) \/ e.agent_id

\* A request whose handler runs again after it answered 502: a retry of a
\* failed placement.
StartableAgain(i) ==
    /\ proc[i].pc = "idle" \/ (proc[i].pc = "done" /\ proc[i].resp = "502")
    /\ \A j \in Requests : proc[j].pc \in {"idle", "done"}

\* A call-creation request starts when no other one is in flight.
Startable(i) == proc[i].pc = "idle" /\ \A j \in Requests : proc[j].pc \in {"idle", "done"}

\* ------------------------------------------------------------------ initiate_retell_call

\* A handler that writes the oldest row of the table instead of the one it
\* inserted.
OwnRowOldest(i) == CHOOSE r \in Rows : \A q \in Rows : r <= q

\* The row the handler's session holds (`call`), which its commits write.
OwnRow(i) == proc[i].rid

\* Step 1: insert the provisional row and commit.
InitCreate(i) ==
    /\ Startable(i)
    /\ \E req \in InitiateRequests :
        /\ store' = Insert(store, NewCall(nextId, req))
        /\ proc' = [proc EXCEPT ![i] =
                [@ EXCEPT !.pc = "created", !.rid = nextId,
                          !.agent_id = req.agent_id, !.from_number = req.from_number,
                          !.trail = <<NewCall(nextId, req).status>>]]
    /\ nextId' = nextId + 1
    /\ txBy' = [r \in DOMAIN txBy \cup {nextId} |-> IF r = nextId THEN "none" ELSE txBy[r]]
    /\ applied' = [r \in DOMAIN applied \cup {nextId} |->
                        IF r = nextId THEN <<>> ELSE applied[r]]
    /\ UNCHANGED <<env, nextCall, hook, delivered, reply>>

\* Step 4, except RetellConfigError: delete the row, answer 400.
InitConfigError(i) ==
    /\ proc[i].pc = "created"
    /\ ~(ServiceAvailable(env) /\ Resolvable(env, proc[i].agent_id, proc[i].from_number))
    /\ store' = Delete(store, OwnRow(i))
    /\ txBy' = [r \in DOMAIN txBy \ {OwnRow(i)} |-> txBy[r]]
    /\ applied' = [r \in DOMAIN applied \ {OwnRow(i)} |-> applied[r]]
    /\ proc' = [proc EXCEPT ![i] =
            [@ EXCEPT !.pc = "done", !.resp = "400", !.agent_id = None,
                      !.from_number = None]]
    /\ UNCHANGED <<env, nextId, nextCall, hook, delivered, reply>>

\* Step 4 with a provider failure handled as lines 96-98 handle a
\* RetellConfigError: the row is deleted, and the answer is 502.
InitPlaceFailDeletes(i) ==
    /\ proc[i].pc = "created"
    /\ ServiceAvailable(env) /\ Resolvable(env, proc[i].agent_id, proc[i].from_number)
    /\ store' = Delete(store, OwnRow(i))
    /\ txBy' = [r \in DOMAIN txBy \ {OwnRow(i)} |-> txBy[r]]
    /\ applied' = [r \in DOMAIN applied \ {OwnRow(i)} |-> applied[r]]
    /\ proc' = [proc EXCEPT ![i] =
            [@ EXCEPT !.pc = "done", !.resp = "502", !.placed = TRUE,
                      !.agent_id = None, !.from_number = None]]
    /\ UNCHANGED <<env, nextId, nextCall, hook, delivered, reply>>

\* Step 4, except Exception: the provider call failed; mark the row failed, answer 502.
InitPlaceFail(i) ==
    /\ proc[i].pc = "created"
    /\ ServiceAvailable(env) /\ Resolvable(env, proc[i].agent_id, proc[i].from_number)
    /\ store' = [store EXCEPT ![OwnRow(i)] = [@ EXCEPT !.status = "failed"]]
    /\ proc' = [proc EXCEPT ![i] =
            [@ EXCEPT !.pc = "done", !.resp = "502", !.placed = TRUE,
                      !.agent_id = None, !.from_number = None,
                      !.trail = Append(@, "failed")]]
    /\ UNCHANGED <<env, nextId, nextCall, hook, delivered, reply, txBy, applied>>

\* Step 4, success, with a commit of the provider's call id as soon as the
\* provider answers, before the commit of step 5 that writes the status.
InitPlaceOkCommitsId(i) ==
    /\ proc[i].pc = "created"
    /\ ServiceAvailable(env) /\ Resolvable(env, proc[i].agent_id, proc[i].from_number)
    /\ \E st \in PlacementStatuses :
        proc' = [proc EXCEPT ![i] =
            [@ EXCEPT !.pc = "placed", !.call_id = nextCall, !.call_status = st,
                      !.agent_id = None, !.from_number = None, !.placed = TRUE]]
    /\ store' = [store EXCEPT ![OwnRow(i)] = [@ EXCEPT !.retell_call_id = nextCall]]
    /\ nextCall' = nextCall + 1
    /\ UNCHANGED <<env, nextId, hook, delivered, reply, txBy, applied>>

\* Step 4, success: the provider registered the call and answered with its id.
InitPlaceOk(i) ==
    /\ proc[i].pc = "created"
    /\ ServiceAvailable(env) /\ Resolvable(env, proc[i].agent_id, proc[i].from_number)
    /\ \E st \in PlacementStatuses :
        proc' = [proc EXCEPT ![i] =
            [@ EXCEPT !.pc = "placed", !.call_id = nextCall, !.call_status = st,
                      !.agent_id = None, !.from_number = None, !.placed = TRUE]]
    /\ nextCall' = nextCall + 1
    /\ UNCHANGED <<env, store, nextId, hook, delivered, reply, txBy, applied>>

\* The response with the status of the provisional row instead of the one
\* the commit stored.
ResponseProvisional(row) ==
    [internal_call_id |-> row.id, retell_call_id |-> row.retell_call_id,
     status |-> "initiated"]

\* The fields of the response that come from the row: the commit expires the
\* session's object (expire_on_commit is left at its default), and call.id at
\* line 113 reads the row back.
Response(row) ==
    [internal_call_id |-> row.id, retell_call_id |-> row.retell_call_id,
     status |-> row.status]

\* Step 5: copy the provider's call id and status into the row and commit;
\* answer 200 with the row's id, call id and status.
InitCommit(i) ==
    /\ proc[i].pc = "placed"
    /\ LET row == store[OwnRow(i)]
           obj == [row EXCEPT !.retell_call_id = proc[i].call_id,
                              !.status = GetOr(proc[i].call_status, "registered")]
       IN  /\ store' = [store EXCEPT ![OwnRow(i)] = obj]
           /\ proc' = [proc EXCEPT ![i] =
                   [@ EXCEPT !.pc = "done", !.resp = "200",
                             !.trail = Append(@, obj.status),
                             !.body = Response(obj)]]
    /\ UNCHANGED <<env, nextId, nextCall, hook, delivered, reply, txBy, applied>>

\* ------------------------------------------------------------------ create_retell_web_call

\* The service or the provider raised: except Exception answers 500, no row.
WebCallFail(i) ==
    /\ Startable(i)
    /\ proc' = [proc EXCEPT ![i] = [@ EXCEPT !.pc = "done", !.resp = "500"]]
    /\ UNCHANGED <<env, store, nextId, nextCall, hook, delivered, reply, txBy, applied>>

\* The provider created the web call and answered with its id.
WebCallPlace(i) ==
    /\ Startable(i)
    /\ ServiceAvailable(env)
    /\ \E req \in WebCallRequests :
        /\ WebResolvable(env, req.agent_id)
        /\ proc' = [proc EXCEPT ![i] =
                [@ EXCEPT !.pc = "web", !.call_id = nextCall, !.placed = TRUE,
                          !.lead = req.lead]]
    /\ nextCall' = nextCall + 1
    /\ UNCHANGED <<env, store, nextId, hook, delivered, reply, txBy, applied>>

\* Insert the row that tracks the web call and commit; answer 200.
WebCallInsert(i) ==
    /\ proc[i].pc = "web"
    /\ store' = Insert(store,
            NewWebCall(nextId, [lead |-> proc[i].lead], proc[i].call_id))
    /\ proc' = [proc EXCEPT ![i] =
            [@ EXCEPT !.pc = "done", !.rid = nextId, !.resp = "200", !.lead = None]]
    /\ nextId' = nextId + 1
    /\ txBy' = [r \in DOMAIN txBy \cup {nextId} |-> IF r = nextId THEN "none" ELSE txBy[r]]
    /\ applied' = [r \in DOMAIN applied \cup {nextId} |->
                        IF r = nextId THEN <<>> ELSE applied[r]]
    /\ UNCHANGED <<env, nextCall, hook, delivered, reply>>

\* ------------------------------------------------------------------ retell_webhook

Kinds == {"call_started", "call_ended", "call_analyzed", "other"}

\* The kinds whose commits the history `applied` records, each with whether
\* the event carried a non-empty transcript.
Recorded == {"call_started", "call_ended", "call_analyzed"}

\* The payloads of a well-formed body: the event kind and the fields of the
\* call object the handler of that kind reads, as <<call_status, duration_ms,
\* transcript>> of a call_ended and <<call_summary, recording_url,
\* transcript>> of a call_analyzed.  Each kind comes with nothing, with
\* everything, and with an empty transcript.
EndedFields ==
    { <<Absent, Absent, Absent>>, <<"error", "60000", "t1">>,
      <<Absent, "60000", "">> }
AnalyzedFields ==
    { <<Absent, Absent, Absent>>, <<"summary", "url", "t2">>,
      <<"summary", "url", "">> }

Events ==
    { [NoEvent EXCEPT !.kind = k, !.call_id = c] :
        k \in {"call_started", "other"}, c \in CallIds \cup {NoCall} }
    \cup
    { [NoEvent EXCEPT !.kind = "call_ended", !.call_id = c, !.call_status = f[1],
                      !.duration_ms = f[2], !.transcript = f[3]] :
        c \in CallIds \cup {NoCall}, f \in EndedFields }
    \cup
    { [NoEvent EXCEPT !.kind = "call_analyzed", !.call_id = c, !.call_summary = f[1],
                      !.recording_url = f[2], !.transcript = f[3]] :
        c \in CallIds \cup {NoCall}, f \in AnalyzedFields }

\* x-retell-signature: missing, or what Retell.verify does with it.
Signatures == {"none", "valid", "invalid", "raises"}

\* The request body: not UTF-8, not JSON, JSON that is no object, an object
\* whose "call" is no object, or a well-formed payload.
Shapes == {"not_utf8", "not_json", "not_object", "call_not_object", "object"}

Deliveries ==
    { [sig |-> s, shape |-> "object", ev |-> e] : s \in Signatures, e \in Events }
    \cup
    { [sig |-> s, shape |-> sh, ev |-> NoEvent] :
        s \in Signatures, sh \in Shapes \ {"object"} }

\* Step 2 without the `except HTTPException: raise` of lines 218-219: the 401
\* of line 217 is caught by the handler of line 220, and the event proceeds.
VerificationSwallowed(e, sig) ==
    IF ~(e.api_key /\ sig # "none") THEN "skipped"
    ELSE CASE sig = "valid"   -> "passed"
           [] sig = "invalid" -> "errored"
           [] sig = "raises"  -> "errored"

\* Step 2 without the handler of lines 220-222: an error raised by
\* Retell.verify rejects the event.
VerificationFailClosed(e, sig) ==
    IF ~(e.api_key /\ sig # "none") THEN "skipped"
    ELSE CASE sig = "valid"   -> "passed"
           [] sig = "invalid" -> "rejected"
           [] sig = "raises"  -> "rejected"

\* Step 2: verification runs only with both an API key and a signature.
Verification(e, sig) ==
    IF ~(e.api_key /\ sig # "none") THEN "skipped"
    ELSE CASE sig = "valid"   -> "passed"
           [] sig = "invalid" -> "rejected"
           [] sig = "raises"  -> "errored"

\* Step 4 with a lookup that falls back to the oldest row when no row has the
\* call id.
LookupOrOldest(st, call_id) ==
    LET hits == {r \in DOMAIN st : st[r].retell_call_id = call_id}
        from == IF hits = {} THEN DOMAIN st ELSE hits
    IN  IF from = {} THEN NoRow ELSE CHOOSE r \in from : \A q \in from : r <= q

\* Step 4: db.query(Call).filter(Call.retell_call_id == id).first()
Lookup(st, call_id) ==
    LET hits == {r \in DOMAIN st : st[r].retell_call_id = call_id}
    IN  IF hits = {} THEN NoRow ELSE CHOOSE r \in hits : \A q \in hits : r <= q

\* Steps 1-4 without the return of lines 238-240: an event without call id
\* goes on to the lookup, whose comparison with None selects the rows that
\* have no call id.
OutcomeNoIdTest(e, st, d) ==
    IF d.shape = "not_utf8" THEN [at |-> "L206", resp |-> "500", rid |-> NoRow]
    ELSE IF Verification(e, d.sig) = "rejected"
         THEN [at |-> "L217", resp |-> "401", rid |-> NoRow]
    ELSE IF d.shape = "not_json" THEN [at |-> "L230", resp |-> "400", rid |-> NoRow]
    ELSE IF d.shape = "not_object" THEN [at |-> "L232", resp |-> "500", rid |-> NoRow]
    ELSE IF d.shape = "call_not_object" THEN [at |-> "L234", resp |-> "500", rid |-> NoRow]
    ELSE IF Lookup(st, d.ev.call_id) = NoRow
         THEN [at |-> "L250", resp |-> "204", rid |-> NoRow]
    ELSE [at |-> "L252", resp |-> "-", rid |-> Lookup(st, d.ev.call_id)]

\* Steps 1-4 with a 404 at line 250 for a call id that no row has.
OutcomeNotFound(e, st, d) ==
    IF d.shape = "not_utf8" THEN [at |-> "L206", resp |-> "500", rid |-> NoRow]
    ELSE IF Verification(e, d.sig) = "rejected"
         THEN [at |-> "L217", resp |-> "401", rid |-> NoRow]
    ELSE IF d.shape = "not_json" THEN [at |-> "L230", resp |-> "400", rid |-> NoRow]
    ELSE IF d.shape = "not_object" THEN [at |-> "L232", resp |-> "500", rid |-> NoRow]
    ELSE IF d.shape = "call_not_object" THEN [at |-> "L234", resp |-> "500", rid |-> NoRow]
    ELSE IF d.ev.call_id = NoCall THEN [at |-> "L240", resp |-> "204", rid |-> NoRow]
    ELSE IF Lookup(st, d.ev.call_id) = NoRow
         THEN [at |-> "L250", resp |-> "404", rid |-> NoRow]
    ELSE [at |-> "L252", resp |-> "-", rid |-> Lookup(st, d.ev.call_id)]

\* Steps 1-4: where the handler returns or raises before it touches a row
\* (the source line and the HTTP status), or the row it loads.
Outcome(e, st, d) ==
    IF d.shape = "not_utf8" THEN [at |-> "L206", resp |-> "500", rid |-> NoRow]
    ELSE IF Verification(e, d.sig) = "rejected"
         THEN [at |-> "L217", resp |-> "401", rid |-> NoRow]
    ELSE IF d.shape = "not_json" THEN [at |-> "L230", resp |-> "400", rid |-> NoRow]
    ELSE IF d.shape = "not_object" THEN [at |-> "L232", resp |-> "500", rid |-> NoRow]
    ELSE IF d.shape = "call_not_object" THEN [at |-> "L234", resp |-> "500", rid |-> NoRow]
    ELSE IF d.ev.call_id = NoCall THEN [at |-> "L240", resp |-> "204", rid |-> NoRow]
    ELSE IF Lookup(st, d.ev.call_id) = NoRow
         THEN [at |-> "L250", resp |-> "204", rid |-> NoRow]
    ELSE [at |-> "L252", resp |-> "-", rid |-> Lookup(st, d.ev.call_id)]

\* Step 5 without the `not call.transcript` test of line 274: call_analyzed
\* stores its transcript whenever it carries one.
ApplyOverwriting(row, ev) ==
    CASE ev.kind = "call_started" ->
            [row EXCEPT !.status = "ongoing"]
      [] ev.kind = "call_ended" ->
            [row EXCEPT !.status = GetOr(ev.call_status, "ended"),
                        !.transcript = Get(ev.transcript),
                        !.duration_ms = Get(ev.duration_ms)]
      [] ev.kind = "call_analyzed" ->
            [row EXCEPT !.call_summary = Get(ev.call_summary),
                        !.recording_url = Get(ev.recording_url),
                        !.transcript = IF Truthy(ev.transcript)
                                       THEN Get(ev.transcript) ELSE row.transcript]
      [] OTHER -> row

\* Step 5 with a call_analyzed that appends its transcript to a stored one
\* (the joined text is written "t+t") instead of leaving the stored one.
ApplyAppending(row, ev) ==
    CASE ev.kind = "call_started" ->
            [row EXCEPT !.status = "ongoing"]
      [] ev.kind = "call_ended" ->
            [row EXCEPT !.status = GetOr(ev.call_status, "ended"),
                        !.transcript = Get(ev.transcript),
                        !.duration_ms = Get(ev.duration_ms)]
      [] ev.kind = "call_analyzed" ->
            [row EXCEPT !.call_summary = Get(ev.call_summary),
                        !.recording_url = Get(ev.recording_url),
                        !.transcript = IF ~Truthy(ev.transcript) THEN row.transcript
                                       ELSE IF ~Truthy(row.transcript)
                                            THEN Get(ev.transcript)
                                       ELSE "t+t"]
      [] OTHER -> row

\* Step 5 with a call_ended that stores its transcript only when it carries
\* one.
ApplyEndedKeeps(row, ev) ==
    CASE ev.kind = "call_started" ->
            [row EXCEPT !.status = "ongoing"]
      [] ev.kind = "call_ended" ->
            [row EXCEPT !.status = GetOr(ev.call_status, "ended"),
                        !.transcript = IF Truthy(ev.transcript)
                                       THEN Get(ev.transcript) ELSE row.transcript,
                        !.duration_ms = Get(ev.duration_ms)]
      [] ev.kind = "call_analyzed" ->
            [row EXCEPT !.call_summary = Get(ev.call_summary),
                        !.recording_url = Get(ev.recording_url),
                        !.transcript = IF Truthy(ev.transcript) /\ ~Truthy(row.transcript)
                                       THEN Get(ev.transcript) ELSE row.transcript]
      [] OTHER -> row

\* Step 5 without lines 274-275: call_analyzed never stores a transcript.
ApplyNoBackfill(row, ev) ==
    CASE ev.kind = "call_started" ->
            [row EXCEPT !.status = "ongoing"]
      [] ev.kind = "call_ended" ->
            [row EXCEPT !.status = GetOr(ev.call_status, "ended"),
                        !.transcript = Get(ev.transcript),
                        !.duration_ms = Get(ev.duration_ms)]
      [] ev.kind = "call_analyzed" ->
            [row EXCEPT !.call_summary = Get(ev.call_summary),
                        !.recording_url = Get(ev.recording_url)]
      [] OTHER -> row

\* Step 5 with a call_started that also clears what an earlier call left in
\* the row.
ApplyStartedResets(row, ev) ==
    CASE ev.kind = "call_started" ->
            [row EXCEPT !.status = "ongoing", !.transcript = None,
                        !.duration_ms = None]
      [] ev.kind = "call_ended" ->
            [row EXCEPT !.status = GetOr(ev.call_status, "ended"),
                        !.transcript = Get(ev.transcript),
                        !.duration_ms = Get(ev.duration_ms)]
      [] ev.kind = "call_analyzed" ->
            [row EXCEPT !.call_summary = Get(ev.call_summary),
                        !.recording_url = Get(ev.recording_url),
                        !.transcript = IF Truthy(ev.transcript) /\ ~Truthy(row.transcript)
                                       THEN Get(ev.transcript) ELSE row.transcript]
      [] OTHER -> row

\* Step 5 with a call_ended that stores the duration as the recording's
\* address as well.
ApplyEndedRecords(row, ev) ==
    CASE ev.kind = "call_started" ->
            [row EXCEPT !.status = "ongoing"]
      [] ev.kind = "call_ended" ->
            [row EXCEPT !.status = GetOr(ev.call_status, "ended"),
                        !.transcript = Get(ev.transcript),
                        !.duration_ms = Get(ev.duration_ms),
                        !.recording_url = Get(ev.duration_ms)]
      [] ev.kind = "call_analyzed" ->
            [row EXCEPT !.call_summary = Get(ev.call_summary),
                        !.recording_url = Get(ev.recording_url),
                        !.transcript = IF Truthy(ev.transcript) /\ ~Truthy(row.transcript)
                                       THEN Get(ev.transcript) ELSE row.transcript]
      [] OTHER -> row

\* Step 5 with an else branch that marks the row instead of only logging.
ApplyMarksUnhandled(row, ev) ==
    CASE ev.kind = "call_started" ->
            [row EXCEPT !.status = "ongoing"]
      [] ev.kind = "call_ended" ->
            [row EXCEPT !.status = GetOr(ev.call_status, "ended"),
                        !.transcript = Get(ev.transcript),
                        !.duration_ms = Get(ev.duration_ms)]
      [] ev.kind = "call_analyzed" ->
            [row EXCEPT !.call_summary = Get(ev.call_summary),
                        !.recording_url = Get(ev.recording_url),
                        !.transcript = IF Truthy(ev.transcript) /\ ~Truthy(row.transcript)
                                       THEN Get(ev.transcript) ELSE row.transcript]
      [] OTHER -> [row EXCEPT !.status = "unhandled"]

\* Step 5: the attribute assignments of each event kind, on the loaded row.
Apply(row, ev) ==
    CASE ev.kind = "call_started" ->
            [row EXCEPT !.status = "ongoing"]
      [] ev.kind = "call_ended" ->
            [row EXCEPT !.status = GetOr(ev.call_status, "ended"),
                        !.transcript = Get(ev.transcript),
                        !.duration_ms = Get(ev.duration_ms)]
      [] ev.kind = "call_analyzed" ->
            [row EXCEPT !.call_summary = Get(ev.call_summary),
                        !.recording_url = Get(ev.recording_url),
                        !.transcript = IF Truthy(ev.transcript) /\ ~Truthy(row.transcript)
                                       THEN Get(ev.transcript) ELSE row.transcript]
      [] OTHER -> row

\* What the handler has done with delivery d when it returns, raises, or has
\* loaded the matching row: the reply it gave, or the row and the event it
\* holds; and the call id that line 249 logs as having no row.
Arrival(e, st, d) ==
    LET out == Outcome(e, st, d)
    IN  IF out.rid = NoRow
        THEN [reply  |-> [at |-> out.at, resp |-> out.resp], hook |-> IdleHook,
              missed |-> IF out.at = "L250" THEN d.ev.call_id ELSE NoCall]
        ELSE [reply  |-> NoReply,
              hook   |-> [pc |-> "loaded", rid |-> out.rid, ev |-> d.ev,
                          loaded |-> st[out.rid]],
              missed |-> NoCall]

\* The provider has issued the call id of request i, and the handler has not
\* yet committed the row that has it.
InFlight(i) == proc[i].pc \in {"placed", "web"}

\* Deliveries go to the first free worker.
Free(w) == hook[w].pc = "idle" /\ \A v \in Workers : hook[v].pc = "idle" => ~(v < w)

\* Steps 4-6 of one handler with no other commit between its load and its
\* commit: the row it leaves.
HandleAlone(row, ev) == Flush(row, row, Apply(row, ev))

\* A delivery arrives at a free worker, which runs the handler up to its
\* return, its raise, or the load of the matching row.
WebhookReceive(w) ==
    /\ Free(w)
    /\ delivered < MaxEvents
    /\ \E a \in {Arrival(env, store, d) : d \in Deliveries} :
        /\ hook' = [hook EXCEPT ![w] = a.hook]
        /\ reply' = IF a.hook.pc = "idle" THEN a.reply ELSE reply
        /\ proc' = [i \in Requests |->
                IF a.missed # NoCall /\ InFlight(i) /\ proc[i].call_id = a.missed
                THEN [proc[i] EXCEPT !.early = TRUE] ELSE proc[i]]
    /\ delivered' = delivered + 1
    /\ UNCHANGED <<env, store, nextId, nextCall, txBy, applied>>

\* db.commit() and the 204 response.
WebhookCommit(w) ==
    /\ hook[w].pc = "loaded"
    /\ LET rid == hook[w].rid
           ev  == hook[w].ev
           new == Flush(store[rid], hook[w].loaded, Apply(hook[w].loaded, ev))
       IN  /\ store' = [store EXCEPT ![rid] = new]
           /\ txBy' = [txBy EXCEPT ![rid] =
                   IF ev.kind = "call_ended" /\ new.transcript = Get(ev.transcript)
                   THEN "call_ended"
                   ELSE IF new.transcript # store[rid].transcript THEN ev.kind
                   ELSE @]
           /\ applied' = [applied EXCEPT ![rid] =
                   IF ev.kind \in Recorded
                   THEN Append(@, <<ev.kind, Truthy(ev.transcript)>>) ELSE @]
    /\ hook' = [hook EXCEPT ![w] = IdleHook]
    /\ reply' = [at |-> "L292", resp |-> "204"]
    /\ UNCHANGED <<env, nextId, nextCall, proc, delivered>>

\* ------------------------------------------------------------------ list_retell_calls, get_retell_call

\* limit: int = 50
DefaultLimit == 50

\* The values of the query parameter limit, which the handler does not
\* validate: negative, zero, fewer than the rows can be, and the default.
Limits == {-1, 0, 1, DefaultLimit}

\* A filter that lets every row through.
ListedAll(st) == DOMAIN st

\* .filter(Call.retell_call_id.isnot(None))
Listed(st) == {r \in DOMAIN st : st[r].retell_call_id # NoCall}

\* .order_by(Call.created_at.desc()): the rows of S, the latest created first.
NewestFirst(st, S) ==
    [k \in 1..Cardinality(S) |->
        CHOOSE r \in S :
            Cardinality({q \in S : st[q].created_at > st[r].created_at}) = k - 1]

\* .limit(limit): SQLite takes a negative LIMIT as no limit.
Limit(seq, limit) ==
    IF limit < 0 THEN seq
    ELSE SubSeq(seq, 1, IF limit < Len(seq) THEN limit ELSE Len(seq))

\* An entry of "calls" that has the transcript as well.
SummaryWithTranscript(row) ==
    [ id             |-> row.id,
      retell_call_id |-> row.retell_call_id,
      lead_name      |-> row.lead_name,
      lead_phone     |-> row.lead_phone,
      status         |-> row.status,
      duration_ms    |-> row.duration_ms,
      transcript     |-> row.transcript,
      has_transcript |-> Truthy(row.transcript),
      has_summary    |-> Truthy(row.call_summary),
      recording_url  |-> row.recording_url,
      created_at     |-> row.created_at ]

\* One entry of "calls" in the response of list_retell_calls.
Summary(row) ==
    [ id             |-> row.id,
      retell_call_id |-> row.retell_call_id,
      lead_name      |-> row.lead_name,
      lead_phone     |-> row.lead_phone,
      status         |-> row.status,
      duration_ms    |-> row.duration_ms,
      has_transcript |-> Truthy(row.transcript),
      has_summary    |-> Truthy(row.call_summary),
      recording_url  |-> row.recording_url,
      created_at     |-> row.created_at ]

\* GET /api/retell/calls
list_retell_calls(st, limit) ==
    LET rows == Limit(NewestFirst(st, Listed(st)), limit)
    IN  [ total |-> Len(rows),
          calls |-> [k \in 1..Len(rows) |-> Summary(st[rows[k]])] ]

\* The path parameter call_id of get_retell_call: a string that is the uuid of
\* row n, or the provider's id of call n (the two kinds never coincide).
Keys == [by : {"id", "retell_call_id"}, n : 1..(Cardinality(Requests) + 1)]

\* The response of get_retell_call for the row it found.
Detail(row) ==
    [ id             |-> row.id,
      retell_call_id |-> row.retell_call_id,
      lead_id        |-> row.lead_id,
      lead_name      |-> row.lead_name,
      lead_phone     |-> row.lead_phone,
      status         |-> row.status,
      duration_ms    |-> row.duration_ms,
      transcript     |-> row.transcript,
      call_summary   |-> row.call_summary,
      recording_url  |-> row.recording_url,
      created_at     |-> row.created_at ]

\* GET /api/retell/calls/{call_id}: the row with this id, or else the first
\* row with this provider call id, or else 404.
get_retell_call(st, key) ==
    LET byId   == {r \in DOMAIN st : key.by = "id" /\ r = key.n}
        byCall == {r \in DOMAIN st :
                      key.by = "retell_call_id" /\ st[r].retell_call_id = key.n}
        found  == IF byId # {} THEN byId ELSE byCall
    IN  IF found = {} THEN [status |-> "404", body |-> <<>>]
        ELSE [status |-> "200",
              body   |-> Detail(st[CHOOSE r \in found : \A q \in found : r <= q])]

\* ------------------------------------------------------------------ specification

Next ==
    \/ \E i \in Initiations :
        \/ InitCreate(i)
        \/ InitConfigError(i)
        \/ InitPlaceFail(i)
        \/ InitPlaceOk(i)
        \/ InitCommit(i)
    \/ \E i \in WebCalls :
        \/ WebCallFail(i)
        \/ WebCallPlace(i)
        \/ WebCallInsert(i)
    \/ \E w \in Workers :
        \/ WebhookReceive(w)
        \/ WebhookCommit(w)

Spec == Init /\ [][Next]_vars

\* ------------------------------------------------------------------ properties

\* The step in which worker w commits the event it holds.
Committing(w) == hook[w].pc = "loaded" /\ hook'[w].pc = "idle"

\* Worker w holds the row as the table has it: nothing was committed on the
\* row since w loaded it.
Fresh(w) == hook[w].loaded = store[hook[w].rid]

\* Some event of this kind has been committed on row r.
Applied(r, kind) == \E k \in 1..Len(applied[r]) : applied[r][k][1] = kind

\* Worker w commits a call_analyzed that it loaded after a call_ended wrote
\* the transcript the row has.
AnalyzedAfterEnded(w) ==
    /\ Committing(w)
    /\ hook[w].ev.kind = "call_analyzed"
    /\ Fresh(w)
    /\ txBy[hook[w].rid] = "call_ended"

\* C1 as stated: a call_analyzed handled after a call_ended leaves the
\* transcript at what call_ended wrote, whatever transcript it carries.
C1_AsStated ==
    [][\A w \in Workers :
        AnalyzedAfterEnded(w) =>
            store'[hook[w].rid].transcript = store[hook[w].rid].transcript]_vars

\* C1 amended: a call_analyzed handled after a call_ended leaves the
\* transcript at what call_ended wrote when that is a non-empty text; when
\* call_ended wrote none or an empty one, a non-empty transcript of the
\* call_analyzed replaces it.
C1_EndedTranscriptKept ==
    [][\A w \in Workers :
        AnalyzedAfterEnded(w) =>
            LET old == store[hook[w].rid].transcript
                new == store'[hook[w].rid].transcript
            IN  /\ Truthy(old) => new = old
                /\ ~Truthy(old) /\ Truthy(hook[w].ev.transcript) =>
                        new = hook[w].ev.transcript]_vars

\* A call_ended with a transcript, then a call_analyzed with another one, were
\* committed on a row, which has the transcript of the call_ended.
C1_Witness ==
    \E r \in Rows :
        /\ applied[r] = << <<"call_ended", TRUE>>, <<"call_analyzed", TRUE>> >>
        /\ txBy[r] = "call_ended"
        /\ store[r].transcript = "t1"

\* C2 as stated: once the transcript of a row is not null, no step changes it.
C2_AsStated ==
    [][\A r \in Rows :
        store[r].transcript # None /\ r \in DOMAIN store' =>
            store'[r].transcript = store[r].transcript]_vars

\* C2 amended: the transcript of a row changes only in the commit of a
\* call_ended, or of a call_analyzed whose handler read an empty transcript;
\* so a call_analyzed that read a non-empty transcript never changes it, and a
\* call_ended may replace it.
C2_TranscriptWriters ==
    [][\A r \in Rows :
        r \in DOMAIN store' /\ store'[r].transcript # store[r].transcript =>
            \E w \in Workers :
                /\ Committing(w)
                /\ hook[w].rid = r
                /\ \/ hook[w].ev.kind = "call_ended"
                   \/ /\ hook[w].ev.kind = "call_analyzed"
                      /\ ~Truthy(hook[w].loaded.transcript)]_vars

\* A call_analyzed backfilled the transcript and a later call_ended replaced it.
C2_Witness ==
    \E r \in Rows :
        /\ applied[r] = << <<"call_analyzed", TRUE>>, <<"call_ended", TRUE>> >>
        /\ txBy[r] = "call_ended"
        /\ store[r].transcript = "t1"

\* C3: a call_analyzed that carries a non-empty transcript, committed on a row
\* whose transcript is unset and on which no call_ended was applied, sets the
\* transcript to the one it carries.
C3_Backfill ==
    [][\A w \in Workers :
        /\ Committing(w)
        /\ hook[w].ev.kind = "call_analyzed"
        /\ Truthy(hook[w].ev.transcript)
        /\ store[hook[w].rid].transcript = None
        /\ ~Applied(hook[w].rid, "call_ended")
        => store'[hook[w].rid].transcript = hook[w].ev.transcript]_vars

\* The only event committed on a row is a call_analyzed with a transcript, and
\* the row has that transcript.
C3_Witness ==
    \E r \in Rows :
        /\ applied[r] = << <<"call_analyzed", TRUE>> >>
        /\ txBy[r] = "call_analyzed"
        /\ store[r].transcript = "t2"

\* Another delivery can arrive.
MayArrive == delivered < MaxEvents

\* C4: every event handler is idempotent.  In every state in which a delivery
\* can arrive, for every row and every event that the lookup matches to it,
\* handling the same payload a second time, right after the first, leaves the
\* row as the first left it, and the lookup matches the second delivery to
\* the same row; after two call_started the status is "ongoing".  A handler that commits on the row as it loaded it
\* leaves HandleAlone of the row, and answers 204.
C4_Idempotent ==
    /\ [](MayArrive =>
            \A r \in Rows : \A ev \in Events :
                /\ ev.call_id # NoCall
                /\ ev.call_id = store[r].retell_call_id
                /\ Lookup(store, ev.call_id) = r
                =>
                    LET once  == HandleAlone(store[r], ev)
                        twice == HandleAlone(once, ev)
                    IN  /\ twice = once
                        /\ ev.kind = "call_started" => twice.status = "ongoing"
                        /\ Lookup([store EXCEPT ![r] = once], ev.call_id) = r)
    /\ [][\A w \in Workers :
            Committing(w) /\ Fresh(w) =>
                /\ store'[hook[w].rid] = HandleAlone(store[hook[w].rid], hook[w].ev)
                /\ reply'.resp = "204"]_vars

\* Two call_started were committed on a row, one after the other and nothing
\* else, and its status is "ongoing".
C4_Witness ==
    \E r \in Rows :
        /\ applied[r] = << <<"call_started", FALSE>>, <<"call_started", FALSE>> >>
        /\ store[r].status = "ongoing"
        /\ reply.at = "L292"

\* The delivery is one the handler neither refuses nor fails to read: it is
\* not a signature found invalid, and the body is a JSON object whose "call"
\* is an object.
Readable(d) == d.shape = "object" /\ ~(env.api_key /\ d.sig = "invalid")

\* The event carries no call id, or one that no row has.
Uncorrelated(ev) ==
    \/ ev.call_id = NoCall
    \/ \A r \in Rows : store[r].retell_call_id # ev.call_id

\* C5: a webhook whose call id matches no row, or that carries none, is
\* answered 204 without a row being loaded, in every state in which it can
\* arrive, and the step that answers it leaves the table as it was.
C5_UncorrelatedIgnored ==
    /\ [](MayArrive =>
            \A d \in Deliveries :
                Readable(d) /\ Uncorrelated(d.ev) =>
                    /\ Arrival(env, store, d).hook = IdleHook
                    /\ Arrival(env, store, d).reply.resp = "204")
    /\ [][delivered' # delivered /\ hook' = hook /\ reply'.at \in {"L240", "L250"} =>
            store' = store /\ reply'.resp = "204"]_vars

\* The last delivery was answered at line 250: it carried a call id that none
\* of the rows has, and there are rows with a call id.
C5_Witness ==
    /\ reply = [at |-> "L250", resp |-> "204"]
    /\ \E r \in Rows : store[r].retell_call_id # NoCall

\* C6: with RETELL_API_KEY set, a delivery whose signature Retell.verify finds
\* invalid is answered 401 without a row being loaded, whatever its payload
\* and in every state in which it can arrive, and the step that answers it
\* leaves the table as it was.
C6_InvalidSignatureRejected ==
    /\ [](MayArrive /\ env.api_key =>
            \A d \in Deliveries :
                d.sig = "invalid" /\ d.shape # "not_utf8" =>
                    /\ Arrival(env, store, d).hook = IdleHook
                    /\ Arrival(env, store, d).reply = [at |-> "L217", resp |-> "401"])
    /\ [][delivered' # delivered /\ reply'.at = "L217" /\ hook' = hook =>
            store' = store /\ reply'.resp = "401"]_vars

\* The last delivery was refused with 401 while the table has a row that an
\* event could have matched.
C6_Witness ==
    /\ reply = [at |-> "L217", resp |-> "401"]
    /\ env.api_key
    /\ \E r \in Rows : store[r].retell_call_id # NoCall

\* The agent id or the caller number of request i resolves to nothing: the
\* request gives none and the environment has no default.
Unresolvable(i) ==
    \/ ~Truthy(proc[i].agent_id) /\ ~env.agent_id
    \/ ~Truthy(proc[i].from_number) /\ ~env.from_number

InitiatedRows == {r \in Rows : store[r].lead_phone # "WEB_CALL"}

\* What the handler stores for the status the provider reported.
ProviderStatus(i) ==
    IF proc[i].call_status = Absent THEN "registered" ELSE proc[i].call_status

C10_CallIdStable ==
    [][\A r \in Rows :
        store[r].retell_call_id # NoCall =>
            /\ r \in DOMAIN store'
            /\ store'[r].retell_call_id = store[r].retell_call_id]_vars

\* Two rows have their provider call ids, different ones, after an initiation
\* completed and webhook events were committed on its row.
C10_Witness ==
    \E i \in Initiations : \E r \in Rows :
        /\ proc[i].pc = "done" /\ proc[i].resp = "200"
        /\ r # proc[i].rid
        /\ store[r].retell_call_id # NoCall
        /\ store[proc[i].rid].retell_call_id = proc[i].call_id
        /\ store[r].retell_call_id # proc[i].call_id
        /\ applied[proc[i].rid] # <<>>

\* C11 as stated: every webhook delivery is answered 401 (authentication),
\* 400 (malformed body) or 204; none is answered with a server error.
C11_AsStated == reply.resp \in {"-", "401", "400", "204"}

\* The entries out of a list made with this limit are rows that have a
\* provider call id, the latest created first, and every row left out is
\* older than every row listed or has no provider call id.
ListsNewest(out, limit) ==
    /\ \A k \in 1..Len(out) :
        /\ out[k].id \in Rows
        /\ out[k].retell_call_id # NoCall
        /\ out[k].retell_call_id = store[out[k].id].retell_call_id
    /\ \A j, k \in 1..Len(out) : j < k => out[j].created_at > out[k].created_at
    /\ \A r \in Rows :
        (\A k \in 1..Len(out) : out[k].id # r) =>
            \/ store[r].retell_call_id = NoCall
            \/ /\ Len(out) = limit
               /\ \A k \in 1..Len(out) : store[r].created_at < out[k].created_at

\* C12 as stated: for every limit, the list has only rows with a provider
\* call id, newest first, and no entry beyond the limit.
C12_AsStated ==
    \A limit \in Limits :
        LET res == list_retell_calls(store, limit)
        IN  /\ ListsNewest(res.calls, limit)
            /\ \A k \in 1..Len(res.calls) : k <= limit

\* C12 amended: for every limit that is not negative, the list has only rows
\* with a provider call id, newest first, and never more entries than the
\* limit; for a negative limit it has all the rows with a provider call id,
\* newest first.  A row without provider call id is in no list.
C12_ListContents ==
    \A limit \in Limits :
        LET res == list_retell_calls(store, limit)
        IN  /\ ListsNewest(res.calls, limit)
            /\ res.total = Len(res.calls)
            /\ limit >= 0 => res.total <= limit
            /\ limit < 0 => res.total = Cardinality(Listed(store))

\* The table has the row of a failed placement, without provider call id, and
\* a row with one: the default list has the second only.
C12_Witness ==
    \E r, q \in Rows :
        /\ store[r].retell_call_id = NoCall /\ store[r].status = "failed"
        /\ store[q].retell_call_id # NoCall
        /\ list_retell_calls(store, DefaultLimit).total = 1
        /\ list_retell_calls(store, DefaultLimit).calls[1].id = q

\* The fields of a list entry that are computed from a column and are not
\* columns themselves.
Flags == {"has_transcript", "has_summary"}

\* The list entries, each with the detail response for its id and the one for
\* its provider call id.
Both ==
    LET out == list_retell_calls(store, DefaultLimit).calls
    IN  { <<out[k], get_retell_call(store, [by |-> b, n |-> out[k][b]])>> :
            k \in 1..Len(out), b \in {"id", "retell_call_id"} }

\* C13 as stated: for every record that both endpoints return, the fields of
\* the list entry are a strict subset of the fields of the detail response,
\* and the list entry has no transcript.
C13_AsStated ==
    \A p \in Both :
        /\ p[2].status = "200"
        /\ DOMAIN p[1] \subseteq DOMAIN p[2].body
        /\ DOMAIN p[1] # DOMAIN p[2].body
        /\ "transcript" \notin DOMAIN p[1]

\* C13 amended: for every record that both endpoints return, the fields of
\* the list entry other than the flags has_transcript and has_summary are a
\* strict subset of the fields of the detail response and have the same
\* values there; the flags, which the detail response does not have, tell
\* whether its transcript and its call_summary are non-empty; and the list
\* entry has no transcript field.
C13_SummaryWithinDetail ==
    \A p \in Both :
        /\ p[2].status = "200"
        /\ (DOMAIN p[1] \ Flags) \subseteq DOMAIN p[2].body
        /\ (DOMAIN p[1] \ Flags) # DOMAIN p[2].body
        /\ \A f \in DOMAIN p[1] \ Flags : p[1][f] = p[2].body[f]
        /\ Flags \subseteq DOMAIN p[1]
        /\ Flags \cap DOMAIN p[2].body = {}
        /\ p[1].has_transcript = Truthy(p[2].body.transcript)
        /\ p[1].has_summary = Truthy(p[2].body.call_summary)
        /\ "transcript" \notin DOMAIN p[1]

\* A row with a transcript and a summary is in the list, where its entry has
\* both flags set, and the detail response has the transcript.
C13_Witness ==
    \E p \in Both :
        /\ p[1].has_transcript /\ p[1].has_summary
        /\ p[2].status = "200"
        /\ p[2].body.transcript = "t1"

\* C14 as stated, in the case it names: a call_analyzed whose handler
\* overlaps a call_ended never replaces the non-empty transcript that the
\* call_ended committed, whenever it read the row.
C14_AsStated ==
    [][\A w \in Workers :
        /\ Committing(w)
        /\ hook[w].ev.kind = "call_analyzed"
        /\ txBy[hook[w].rid] = "call_ended"
        /\ Truthy(store[hook[w].rid].transcript)
        => store'[hook[w].rid].transcript = store[hook[w].rid].transcript]_vars

\* The value a handler stores for a field of the call object: the field's
\* value, or null when the payload does not have the field.
Stored(v) == IF v = Absent THEN None ELSE v

\* C15: a call_ended committed on the row as its handler read it sets status
\* to the call_status of the event ("ended" when it has none), and transcript
\* and duration_ms to those of the event (null when it has none), whatever
\* the row had.
C15_EndedAuthoritative ==
    [][\A w \in Workers :
        Committing(w) /\ hook[w].ev.kind = "call_ended" /\ Fresh(w) =>
            LET ev  == hook[w].ev
                new == store'[hook[w].rid]
            IN  /\ new.status = IF ev.call_status = Absent THEN "ended" ELSE ev.call_status
                /\ new.transcript = Stored(ev.transcript)
                /\ new.duration_ms = Stored(ev.duration_ms)]_vars

\* A call_analyzed gave a row its transcript, and a call_ended without
\* transcript and without call_status, committed after it, left the row with
\* no transcript and status "ended".
C15_Witness ==
    \E r \in Rows :
        /\ applied[r] = << <<"call_analyzed", TRUE>>, <<"call_ended", FALSE>> >>
        /\ store[r].transcript = None
        /\ store[r].status = "ended"
        /\ store[r].duration_ms = None

\* The statuses after which a call goes no further: "ended", "failed", and
\* the call_status that a call_ended reports.
Terminal(status) == status \in {"ended", "failed", "error"}

\* C16 as stated: a row whose status is terminal never gets a status that is
\* not, and a row with a provider call id is never deleted.
C16_AsStated ==
    [][\A r \in Rows :
        /\ store[r].retell_call_id # NoCall => r \in DOMAIN store'
        /\ Terminal(store[r].status) /\ r \in DOMAIN store' =>
                Terminal(store'[r].status)]_vars

\* The row after three events were handled one after the other, each by a
\* handler alone.
AfterThree(row, o) == HandleAlone(HandleAlone(HandleAlone(row, o[1]), o[2]), o[3])

\* The orders in which three events can be delivered, each once.
Orders(S) == {o \in [1..3 -> S] : \A j, k \in 1..3 : j # k => o[j] # o[k]}

\* A call_started, a call_ended and a call_analyzed for this call id.
Triples(call_id) ==
    { {s, e, a} :
        s \in {ev \in Events : ev.kind = "call_started" /\ ev.call_id = call_id},
        e \in {ev \in Events : ev.kind = "call_ended" /\ ev.call_id = call_id},
        a \in {ev \in Events : ev.kind = "call_analyzed" /\ ev.call_id = call_id} }

\* C17 as stated: for every row with a provider call id and every
\* call_started, call_ended and call_analyzed for it, every order of delivery
\* leaves the row in the same state, with a terminal status.
C17_AsStated ==
    \A r \in Rows :
        store[r].retell_call_id # NoCall =>
            \A S \in Triples(store[r].retell_call_id) :
                \A o, p \in Orders(S) :
                    /\ AfterThree(store[r], o) = AfterThree(store[r], p)
                    /\ Terminal(AfterThree(store[r], o).status)

Attempt(i) ==
    /\ proc[i].pc = "created"
    /\ proc'[i].pc = "placed" \/ (proc'[i].pc = "done" /\ proc'[i].resp = "502")

Signed(d) == [d EXCEPT !.sig = "valid"]

\* The delivery is not one that Retell.verify returns false for: there is no
\* API key, or no signature, or the signature is valid, or Retell.verify
\* raises.
NotRefused(e, d) == ~e.api_key \/ d.sig \in {"none", "valid", "raises"}

\* C22: in every state in which a delivery can arrive, a delivery without a
\* signature, or in an environment without API key, or whose verification
\* raises, is handled as the same body with a valid signature is handled in
\* an environment with the API key: the same reply, or the same row loaded
\* with the same event; and the handler answers 401 only when there is an
\* API key and Retell.verify returns false.
C22_LenientVerification ==
    [](MayArrive =>
        \A d \in Deliveries :
            LET a == Arrival(env, store, d)
            IN  /\ NotRefused(env, d) =>
                       \A e \in {k \in Envs : k.api_key} :
                           LET b == Arrival(e, store, Signed(d))
                           IN  a.hook = b.hook /\ a.reply = b.reply
                /\ a.reply.resp = "401" =>
                       env.api_key /\ d.sig = "invalid" /\ a.hook = IdleHook)

\* A delivery can arrive whose verification raises, and one without
\* signature, both for a row that the event changes: the handler loads the
\* row for each as it does for the signed one.
C22_Witness ==
    /\ MayArrive
    /\ env.api_key
    /\ \E d \in Deliveries :
        /\ d.sig = "raises"
        /\ Arrival(env, store, d).hook.pc = "loaded"
        /\ Arrival(env, store, d) = Arrival(env, store, Signed(d))
        /\ Arrival(env, store, d) = Arrival(env, store, [d EXCEPT !.sig = "none"])
        /\ Apply(store[Arrival(env, store, d).hook.rid], d.ev) #
                store[Arrival(env, store, d).hook.rid]

\* C23: the commit of an event whose kind is not call_started, call_ended or
\* call_analyzed (a payload without "event" reads as kind "unknown") leaves
\* the whole table as it was, also when another handler committed on the row
\* in between, and is answered 204 at line 292.
C23_UnknownKindIgnored ==
    [][\A w \in Workers :
        Committing(w) /\ hook[w].ev.kind \notin Recorded =>
            /\ store' = store
            /\ applied' = applied
            /\ reply' = [at |-> "L292", resp |-> "204"]]_vars

\* A handler loaded a row and committed, and no event of the three kinds has
\* been committed on any row: the commit was of an event of another kind.
C23_Witness ==
    /\ reply = [at |-> "L292", resp |-> "204"]
    /\ \E r \in Rows : store[r].retell_call_id # NoCall
    /\ \A r \in Rows : applied[r] = <<>>

\* C24: in every state, a row with a call_summary or a recording_url has had
\* a call_analyzed committed on it, and a row with a duration_ms has had a
\* call_ended committed on it.
C24_AnalysisFieldsProvenance ==
    \A r \in Rows :
        /\ store[r].call_summary # None \/ store[r].recording_url # None =>
               Applied(r, "call_analyzed")
        /\ store[r].duration_ms # None => Applied(r, "call_ended")

\* A row has a summary, a recording address and a duration, and a call_ended
\* and a call_analyzed were committed on it.
C24_Witness ==
    \E r \in Rows :
        /\ store[r].call_summary # None /\ store[r].recording_url # None
        /\ store[r].duration_ms # None
        /\ Applied(r, "call_ended") /\ Applied(r, "call_analyzed")

\* The columns that the branch of an event kind assigns.
Writes(kind) ==
    CASE kind = "call_started"  -> {"status"}
      [] kind = "call_ended"    -> {"status", "transcript", "duration_ms"}
      [] kind = "call_analyzed" -> {"call_summary", "recording_url", "transcript"}
      [] OTHER -> {}

\* C25: a step of the webhook handler that is not its commit changes no row;
\* its commit adds and removes no row, changes no row but the one it loaded,
\* and on that row no column outside those of the event's kind: status for
\* call_started; status, transcript and duration_ms for call_ended;
\* call_summary, recording_url and transcript for call_analyzed, the
\* transcript only when the event has one and the row as loaded had none.
C25_EventFrame ==
    [][\A w \in Workers :
        /\ hook[w].pc = "idle" /\ delivered' # delivered => store' = store
        /\ Committing(w) =>
               LET rid == hook[w].rid
                   ev  == hook[w].ev
               IN  /\ DOMAIN store' = DOMAIN store
                   /\ \A r \in Rows \ {rid} : store'[r] = store[r]
                   /\ \A c \in Columns \ Writes(ev.kind) :
                           store'[rid][c] = store[rid][c]
                   /\ ev.kind = "call_analyzed"
                         /\ store'[rid].transcript # store[rid].transcript =>
                           /\ Truthy(ev.transcript)
                           /\ ~Truthy(hook[w].loaded.transcript)]_vars

\* A call_started and then a call_ended were committed on a row: it has the
\* status, transcript and duration of the call_ended, its own id and call
\* id, and no summary or recording; another row with a call id has had no
\* event and has no transcript.
C25_Witness ==
    \E r \in Rows :
        /\ applied[r] = << <<"call_started", FALSE>>, <<"call_ended", TRUE>> >>
        /\ store[r].status = "error" /\ store[r].transcript = "t1"
        /\ store[r].duration_ms = "60000"
        /\ store[r].id = r /\ store[r].retell_call_id # NoCall
        /\ store[r].call_summary = None /\ store[r].recording_url = None
        /\ \E q \in Rows \ {r} :
            /\ store[q].retell_call_id # NoCall
            /\ applied[q] = <<>> /\ store[q].transcript = None

\* A step of the webhook handler: a delivery arrives, or a handler commits.
WebhookStep == delivered' # delivered \/ \E w \in Workers : Committing(w)

\* C26: no handler ever holds a row that has no provider call id, no event
\* has been committed on such a row, and no step of the webhook handler
\* changes such a row, whatever call id the delivery carries.
C26_UncorrelatedRowUntouched ==
    /\ [](/\ \A w \in Workers :
               hook[w].pc = "loaded" => store[hook[w].rid].retell_call_id # NoCall
           /\ \A r \in Rows :
               store[r].retell_call_id = NoCall => applied[r] = <<>>)
    /\ [][WebhookStep =>
            \A r \in Rows :
                store[r].retell_call_id = NoCall =>
                    r \in DOMAIN store' /\ store'[r] = store[r]]_vars

\* The placement of an initiation failed, every delivery that can arrive has
\* arrived and the last one was answered 204, and the row is as the failure
\* left it: no call id, status "failed", nothing of any event.
C26_Witness ==
    \E i \in Initiations :
        /\ proc[i].pc = "done" /\ proc[i].resp = "502"
        /\ delivered = MaxEvents /\ reply.resp = "204"
        /\ store[proc[i].rid].retell_call_id = NoCall
        /\ store[proc[i].rid].status = "failed"
        /\ store[proc[i].rid].transcript = None
        /\ store[proc[i].rid].call_summary = None
        /\ applied[proc[i].rid] = <<>>

\* Some handler of the webhook holds row r.
Held(r) == \E w \in Workers : hook[w].pc = "loaded" /\ hook[w].rid = r

====
